---- MODULE Spec2Model ----
(***************************************************************************)
(* Chip-tune hex dump generator (src/main.py): class Song, a two-voice     *)
(* note list with push/insert/remove editing, hex_dump() to a byte array   *)
(* and construction from a hex string.                                     *)
(*                                                                         *)
(* Representation.  A Python list is a sequence (Python index i is TLA+    *)
(* index i+1).  An optional argument (None or a value) is <<>> or <<v>>.   *)
(* A hex string is a sequence of hex digits 0..15.  An element of a voice  *)
(* is <<note, length, instrument>>.  Every handler is an operator from the *)
(* state before the call to the exception raised ("none" when it returns  *)
(* normally) and the state after it; the actions apply the handlers.       *)
(***************************************************************************)
EXTENDS Integers, Sequences, FiniteSets

VARIABLES alive, bpm, voices, last, stream

vars == <<alive, bpm, voices, last, stream>>

----------------------------------------------------------------------------
(* Module constants of src/main.py *)

SEGMENT_STR_LEN == 18
NUM_VOICES == 2
NUM_ELEMENTS == 3
LOWER_OCTAVE == 2
UPPER_OCTAVE == 7

C_NATURAL == 0
C_SHARP == 1
B_NATURAL == 11
REST == 73
TONAL_VAL == (0 .. 11) \cup {REST}

NOTE_4 == 8
NOTE_8 == 4
NOTE_32 == 1

PIANO == 0
DRUM == 8

None == <<>>
Some(v) == <<v>>
Val(opt) == opt[1]

----------------------------------------------------------------------------
(* Python built-ins used by the class *)

Min(a, b) == IF a < b THEN a ELSE b
Max(a, b) == IF a > b THEN a ELSE b

\* math.remainder(x, y) for integers x >= 0, y > 0: x - y*n, n the integer
\* nearest to x/y, ties to the even n.
remainder(x, y) ==
    LET q == x \div y
        r == x % y
    IN  IF 2 * r < y THEN r
        ELSE IF 2 * r > y THEN r - y
        ELSE IF q % 2 = 0 THEN r ELSE r - y

\* s[a:][:n] on a string s (a >= 0, n >= 0)
Slice(s, a, n) == SubSeq(s, a + 1, Min(a + n, Len(s)))

\* int(s, base=16) of a non-empty digit string
RECURSIVE HexInt(_)
HexInt(s) ==
    IF Len(s) = 0 THEN 0
    ELSE 16 * HexInt(SubSeq(s, 1, Len(s) - 1)) + s[Len(s)]

\* int.to_bytes() with its defaults (length 1, unsigned): OverflowError
\* outside 0..255
FitsByte(n) == n >= 0 /\ n <= 255

\* n.to_bytes().hex() for n in 0..255
ByteHex(n) == <<n \div 16, n % 16>>

\* bytes.hex() of a byte sequence
RECURSIVE BytesHex(_)
BytesHex(bs) ==
    IF Len(bs) = 0 THEN <<>>
    ELSE ByteHex(bs[1]) \o BytesHex(SubSeq(bs, 2, Len(bs)))

\* bytearray.fromhex(s) of an even-length digit string
FromHex(s) == [i \in 1 .. (Len(s) \div 2) |-> 16 * s[2 * i - 1] + s[2 * i]]

\* list.insert(idx, x): a negative idx counts from the end, then idx is
\* clamped into 0..len
ListInsertPos(lst, idx) ==
    LET i == IF idx < 0 THEN idx + Len(lst) ELSE idx
    IN  IF i < 0 THEN 0 ELSE IF i > Len(lst) THEN Len(lst) ELSE i

\* list.insert placing x one position too late
ListInsertAfter(lst, idx, x) ==
    LET p == Min(ListInsertPos(lst, idx) + 1, Len(lst))
    IN  SubSeq(lst, 1, p) \o <<x>> \o SubSeq(lst, p + 1, Len(lst))

ListInsert(lst, idx, x) ==
    LET p == ListInsertPos(lst, idx)
    IN  SubSeq(lst, 1, p) \o <<x>> \o SubSeq(lst, p + 1, Len(lst))

\* list.pop(idx): a negative idx counts from the end; IndexError when the
\* position does not exist
ListPopPos(lst, idx) == IF idx < 0 THEN idx + Len(lst) ELSE idx

ListPopOk(lst, idx) ==
    ListPopPos(lst, idx) >= 0 /\ ListPopPos(lst, idx) < Len(lst)

ListPop(lst, idx) ==
    LET p == ListPopPos(lst, idx)
    IN  SubSeq(lst, 1, p) \o SubSeq(lst, p + 2, Len(lst))

\* lst[idx] on the two-element list self._voices: the position selected,
\* 0 when it raises IndexError, else the 1-based position
VoiceSlot(idx) ==
    LET i == IF idx < 0 THEN idx + NUM_VOICES ELSE idx
    IN  IF i >= 0 /\ i < NUM_VOICES THEN i + 1 ELSE 0

----------------------------------------------------------------------------
(* class Song *)

EmptyVoices == <<<<>>, <<>>>>

Raise(exc, vs) == [err |-> exc, voices |-> vs]
Return(vs) == [err |-> "none", voices |-> vs]

\* The scaling with octaves counted from LOWER_OCTAVE - 1
ScaledNoteFromOne(note, octave) ==
    note + (Val(octave) - LOWER_OCTAVE + 1) * 12

\* The value stored for a non-rest note
ScaledNote(note, octave) == note + (Val(octave) - LOWER_OCTAVE) * 12

\* push_segment without the branch for rest notes: a rest given an octave is
\* scaled like any other note
push_segment_scaling_rest(vs, voice_num, note, length, octave, instrument) ==
    IF voice_num \notin 1 .. NUM_VOICES
    THEN Raise("ValueError", vs)
    ELSE IF length > 255 \/ length < 0
    THEN Raise("ValueError", vs)
    ELSE IF octave = None /\ note # REST
    THEN Raise("ValueError", vs)
    ELSE IF octave # None
            /\ (Val(octave) < LOWER_OCTAVE \/ Val(octave) > UPPER_OCTAVE)
    THEN Raise("ValueError", vs)
    ELSE IF octave = None
    THEN Return([vs EXCEPT ![voice_num] =
                    Append(@, <<note, length, instrument>>)])
    ELSE Return([vs EXCEPT ![voice_num] =
                    Append(@, <<note + (Val(octave) - LOWER_OCTAVE) * 12,
                                length, instrument>>)])

\* Song.push_segment on voices vs
push_segment(vs, voice_num, note, length, octave, instrument) ==
    IF voice_num \notin 1 .. NUM_VOICES
    THEN Raise("ValueError", vs)
    ELSE IF length > 255 \/ length < 0
    THEN Raise("ValueError", vs)
    ELSE IF octave = None /\ note # REST
    THEN Raise("ValueError", vs)
    ELSE IF octave # None
            /\ (Val(octave) < LOWER_OCTAVE \/ Val(octave) > UPPER_OCTAVE)
    THEN Raise("ValueError", vs)
    ELSE IF note = REST
    THEN Return([vs EXCEPT ![voice_num] =
                    Append(@, <<note, length, instrument>>)])
    ELSE Return([vs EXCEPT ![voice_num] =
                    Append(@, <<ScaledNote(note, octave), length, instrument>>)])

\* insert_segment checking the octave only after it has inserted
insert_segment_late(vs, seg_num, voice_num, note, length, octave, instrument) ==
    IF voice_num \notin 1 .. NUM_VOICES
    THEN Raise("ValueError", vs)
    ELSE IF length > 255 \/ length < 0
    THEN Raise("ValueError", vs)
    ELSE IF octave = None /\ note # REST
    THEN Raise("ValueError", vs)
    ELSE LET stored == IF note = REST \/ octave = None THEN note
                       ELSE note + (Val(octave) - LOWER_OCTAVE) * 12
             after == [vs EXCEPT ![voice_num] =
                          ListInsert(@, seg_num,
                                     <<stored, length, instrument>>)]
         IN  IF octave # None
                /\ (Val(octave) < LOWER_OCTAVE \/ Val(octave) > UPPER_OCTAVE)
             THEN Raise("ValueError", after)
             ELSE Return(after)

\* Song.insert_segment on voices vs
insert_segment(vs, seg_num, voice_num, note, length, octave, instrument) ==
    IF voice_num \notin 1 .. NUM_VOICES
    THEN Raise("ValueError", vs)
    ELSE IF length > 255 \/ length < 0
    THEN Raise("ValueError", vs)
    ELSE IF octave = None /\ note # REST
    THEN Raise("ValueError", vs)
    ELSE IF octave # None
            /\ (Val(octave) < LOWER_OCTAVE \/ Val(octave) > UPPER_OCTAVE)
    THEN Raise("ValueError", vs)
    ELSE IF note = REST
    THEN Return([vs EXCEPT ![voice_num] =
                    ListInsert(@, seg_num, <<note, length, instrument>>)])
    ELSE Return([vs EXCEPT ![voice_num] =
                    ListInsert(@, seg_num,
                        <<ScaledNote(note, octave), length, instrument>>)])

\* Song.remove_segment on voices vs: self._voices[voice_num - 1].pop(seg_num - 1)
remove_segment(vs, voice_num, seg_num) ==
    LET slot == VoiceSlot(voice_num - 1)
    IN  IF slot = 0
        THEN Raise("IndexError", vs)
        ELSE IF ~ListPopOk(vs[slot], seg_num - 1)
        THEN Raise("IndexError", vs)
        ELSE Return([vs EXCEPT ![slot] = ListPop(@, seg_num - 1)])

\* The hex text of a voice with the instrument written before the duration
VoiceHexInstrumentFirst(vs, i, j) ==
    IF Len(vs[j + 1]) - 1 < i
    THEN <<0, 0>> \o <<0, 0>> \o <<0, 0>>
    ELSE ByteHex(vs[j + 1][i + 1][1]) \o ByteHex(vs[j + 1][i + 1][3])
            \o ByteHex(vs[j + 1][i + 1][2])

\* hex_dump: the hex text of voice j (0-based) at segment i (0-based)
VoiceHex(vs, i, j) ==
    IF Len(vs[j + 1]) - 1 < i
    THEN <<0, 0>> \o <<0, 0>> \o <<0, 0>>
    ELSE ByteHex(vs[j + 1][i + 1][1]) \o ByteHex(vs[j + 1][i + 1][2])
            \o ByteHex(vs[j + 1][i + 1][3])

\* hex_dump: the loop over the segments i .. max_len - 1
RECURSIVE SegmentsHex(_, _, _)
SegmentsHex(vs, i, max_len) ==
    IF i >= max_len THEN <<>>
    ELSE VoiceHex(vs, i, 0) \o VoiceHex(vs, i, 1)
            \o SegmentsHex(vs, i + 1, max_len)

\* Every value hex_dump passes to to_bytes() fits one byte
DumpFits(b, vs) ==
    /\ FitsByte(b)
    /\ \A j \in 1 .. NUM_VOICES : \A i \in 1 .. Len(vs[j]) :
          \A k \in 1 .. NUM_ELEMENTS : FitsByte(vs[j][i][k])

\* Song.hex_dump of a song with tempo b and voices vs
hex_dump(b, vs) ==
    IF ~DumpFits(b, vs)
    THEN [err |-> "OverflowError", bytes |-> <<>>]
    ELSE [err |-> "none",
          bytes |-> FromHex(ByteHex(b)
                        \o SegmentsHex(vs, 0, Max(Len(vs[1]), Len(vs[2]))))]

\* Song.__init__, byte_string branch: the fields read for element j of
\* segment i
ToneVal(byte_string, i, j) ==
    HexInt(Slice(byte_string, 2 + j * 4 + i * SEGMENT_STR_LEN, 2))
BeatVal(byte_string, i, j) ==
    HexInt(Slice(byte_string, 3 + j * 4 + i * SEGMENT_STR_LEN, 3))
InstrumentVal(byte_string, i, j) ==
    HexInt(Slice(byte_string, 4 + j * 4 + i * SEGMENT_STR_LEN, 4))

\* Song.__init__, byte_string branch: the nested loops from (i, j) on, with
\* vs the voices filled so far and n the number of segments
RECURSIVE DecodeLoop(_, _, _, _, _)
DecodeLoop(byte_string, i, j, vs, n) ==
    IF i >= n THEN Return(vs)
    ELSE IF j >= NUM_ELEMENTS THEN DecodeLoop(byte_string, i + 1, 0, vs, n)
    ELSE IF BeatVal(byte_string, i, j) = 0
    THEN DecodeLoop(byte_string, i, j + 1, vs, n)
    ELSE IF j >= NUM_VOICES THEN Raise("IndexError", vs)
    ELSE DecodeLoop(byte_string, i, j + 1,
            [vs EXCEPT ![j + 1] =
                Append(@, <<ToneVal(byte_string, i, j),
                            BeatVal(byte_string, i, j),
                            InstrumentVal(byte_string, i, j)>>)], n)

\* Song.__init__(bpm, byte_string), both arguments optional; byte_string
\* holds at least the two hex digits of the tempo.  No object exists after
\* an exception.
SongInit(bpm_arg, byte_string) ==
    IF ~((bpm_arg = None) # (byte_string = None))
    THEN [err |-> "ValueError", bpm |-> 0, voices |-> EmptyVoices]
    ELSE IF bpm_arg # None
    THEN [err |-> "none", bpm |-> Val(bpm_arg), voices |-> EmptyVoices]
    ELSE LET bs == Val(byte_string)
             rest == Len(bs) - Min(2, Len(bs))
         IN  IF remainder(rest, SEGMENT_STR_LEN) # 0
             THEN [err |-> "ValueError", bpm |-> 0, voices |-> EmptyVoices]
             ELSE LET r == DecodeLoop(bs, 0, 0, EmptyVoices,
                                      rest \div SEGMENT_STR_LEN)
                  IN  IF r.err # "none"
                      THEN [err |-> r.err, bpm |-> 0, voices |-> EmptyVoices]
                      ELSE [err |-> "none", bpm |-> HexInt(Slice(bs, 0, 2)),
                            voices |-> r.voices]

----------------------------------------------------------------------------
(* The program state: one Song object x (alive once constructed, with its  *)
(* fields _bpm and _voices), the byte stream the driver holds, and a       *)
(* record of the last call: its name, arguments, exception ("none" when it *)
(* returned), the fields of x before it, and its return value.  The driver *)
(* is a script: an exception no one catches ends it, so no call follows a  *)
(* call that raised.                                                       *)

Call(op, args, err, out) ==
    [op |-> op, args |-> args, err |-> err,
     pre |-> [bpm |-> bpm, voices |-> voices], out |-> out]

Size(vs) == Len(vs[1]) + Len(vs[2])

Running == alive /\ last.err = "none"

\* x.push_segment(voice_num, note, length, octave, instrument)
PushSegment(voice_num, note, length, octave, instrument) ==
    /\ Running
    /\ LET r == push_segment(voices, voice_num, note, length, octave,
                             instrument)
       IN  /\ voices' = r.voices
           /\ last' = Call("push_segment",
                           [voice_num |-> voice_num, note |-> note,
                            length |-> length, octave |-> octave,
                            instrument |-> instrument], r.err, <<>>)
    /\ UNCHANGED <<alive, bpm, stream>>

\* x.insert_segment(seg_num, voice_num, note, length, octave, instrument)
InsertSegment(seg_num, voice_num, note, length, octave, instrument) ==
    /\ Running
    /\ LET r == insert_segment(voices, seg_num, voice_num, note, length,
                               octave, instrument)
       IN  /\ voices' = r.voices
           /\ last' = Call("insert_segment",
                           [seg_num |-> seg_num, voice_num |-> voice_num,
                            note |-> note, length |-> length,
                            octave |-> octave, instrument |-> instrument],
                           r.err, <<>>)
    /\ UNCHANGED <<alive, bpm, stream>>

\* x.remove_segment(voice_num, seg_num)
RemoveSegment(voice_num, seg_num) ==
    /\ Running
    /\ LET r == remove_segment(voices, voice_num, seg_num)
       IN  /\ voices' = r.voices
           /\ last' = Call("remove_segment",
                           [voice_num |-> voice_num, seg_num |-> seg_num],
                           r.err, <<>>)
    /\ UNCHANGED <<alive, bpm, stream>>

\* x.hex_dump()
HexDump ==
    /\ Running
    /\ LET r == hex_dump(bpm, voices)
       IN  last' = Call("hex_dump", <<>>, r.err, r.bytes)
    /\ UNCHANGED <<alive, bpm, voices, stream>>

\* y = Song(byte_string = x.hex_dump().hex()); the return value is <<y>>,
\* or <<>> when either call raises
Rebuild ==
    /\ Running
    /\ LET d == hex_dump(bpm, voices)
           r == SongInit(None, Some(BytesHex(d.bytes)))
       IN  last' = IF d.err # "none" THEN Call("rebuild", <<>>, d.err, <<>>)
                   ELSE IF r.err # "none"
                   THEN Call("rebuild", <<>>, r.err, <<>>)
                   ELSE Call("rebuild", <<>>, "none",
                             <<[bpm |-> r.bpm, voices |-> r.voices]>>)
    /\ UNCHANGED <<alive, bpm, voices, stream>>

\* x = Song(byte_string = stream.hex())
Construct ==
    /\ ~alive
    /\ last.op = "start"
    /\ LET r == SongInit(None, Some(BytesHex(stream)))
       IN  /\ alive' = (r.err = "none")
           /\ bpm' = r.bpm
           /\ voices' = r.voices
           /\ last' = Call("__init__", <<>>, r.err, <<>>)
    /\ UNCHANGED stream

\* x = Song(bpm = b)
InitFromBpm(b) ==
    LET r == SongInit(Some(b), None)
    IN  /\ alive = (r.err = "none")
        /\ bpm = r.bpm
        /\ voices = r.voices
        /\ last = [op |-> "__init__", args |-> <<>>, err |-> r.err,
                   pre |-> [bpm |-> r.bpm, voices |-> r.voices], out |-> <<>>]
        /\ stream = <<>>

----------------------------------------------------------------------------
(* Editing a song: calls with well-formed notes, voices of several         *)
(* elements, hex_dump and the round trip through the hex text.             *)

MaxElems == 3

SeqBpms == {120, 255}
SeqVoices == {1, 2}
SeqRemoveVoices == {0, 1, 2, 3}
SeqInsertSegs == {-1, 0, 1, 2, 3}
SeqRemoveSegs == {-1, 0, 1, 2, 3, 4}
SeqNotes ==
    { [note |-> C_SHARP, length |-> NOTE_4, octave |-> Some(4),
       instrument |-> PIANO],
      [note |-> REST, length |-> NOTE_8, octave |-> None,
       instrument |-> PIANO],
      [note |-> B_NATURAL, length |-> 255, octave |-> Some(UPPER_OCTAVE),
       instrument |-> DRUM],
      [note |-> C_NATURAL, length |-> NOTE_32, octave |-> Some(LOWER_OCTAVE),
       instrument |-> PIANO],
      [note |-> C_SHARP, length |-> NOTE_4, octave |-> None,
       instrument |-> PIANO] }

InitSeq == \E b \in SeqBpms : InitFromBpm(b)

NextSeq ==
    \/ /\ Size(voices) < MaxElems
       /\ \E v \in SeqVoices, a \in SeqNotes :
             PushSegment(v, a.note, a.length, a.octave, a.instrument)
    \/ /\ Size(voices) < MaxElems
       /\ \E s \in SeqInsertSegs, v \in SeqVoices, a \in SeqNotes :
             InsertSegment(s, v, a.note, a.length, a.octave, a.instrument)
    \/ \E v \in SeqRemoveVoices, s \in SeqRemoveSegs : RemoveSegment(v, s)
    \/ HexDump
    \/ Rebuild

SpecSeq == InitSeq /\ [][NextSeq]_vars

----------------------------------------------------------------------------
(* Argument validation: push_segment and insert_segment called with every  *)
(* combination of in-range and out-of-range arguments on a short song.     *)

MaxArgElems == 2

ArgVoices == {0, 1, 2, 3}
ArgNotes == {-1, B_NATURAL, 12, REST}
ArgLengths == {-1, 0, 255, 256}
ArgOctaves == {None, Some(1), Some(2), Some(7), Some(8)}
ArgInstruments == {PIANO}
ArgSegs == {0}

InitArgs == InitFromBpm(120)

NextArgs ==
    \/ /\ Size(voices) < MaxArgElems
       /\ \E v \in ArgVoices, n \in ArgNotes, l \in ArgLengths,
             o \in ArgOctaves, i \in ArgInstruments :
             PushSegment(v, n, l, o, i)
    \/ /\ Size(voices) < MaxArgElems
       /\ \E s \in ArgSegs, v \in ArgVoices, n \in ArgNotes,
             l \in ArgLengths, o \in ArgOctaves, i \in ArgInstruments :
             InsertSegment(s, v, n, l, o, i)

SpecArgs == InitArgs /\ [][NextArgs]_vars

----------------------------------------------------------------------------
(* Decoding a byte stream: the driver holds a stream of one tempo byte and *)
(* up to MaxStreamBytes further bytes, constructs a Song from its hex text *)
(* and dumps it again.                                                     *)

MaxStreamBytes == 9

StreamBpms == {120}
StreamBytes == {0, 8, REST}

Streams ==
    { <<b>> \o t : b \in StreamBpms,
                   t \in UNION { [1 .. n -> StreamBytes] :
                                   n \in 0 .. MaxStreamBytes } }

InitStream ==
    /\ alive = FALSE
    /\ bpm = 0
    /\ voices = EmptyVoices
    /\ last = [op |-> "start", args |-> <<>>, err |-> "none",
               pre |-> [bpm |-> 0, voices |-> EmptyVoices], out |-> <<>>]
    /\ stream \in Streams

NextStream ==
    \/ Construct
    \/ HexDump

SpecStream == InitStream /\ [][NextStream]_vars

----------------------------------------------------------------------------
(* Properties *)

A == last.args
Pre == last.pre

IsEdit == last.op \in {"push_segment", "insert_segment"}

\* The element a push or insert of these arguments is to store
Encoded(note, length, octave, instrument) ==
    <<IF note = REST THEN REST ELSE note + (Val(octave) - 2) * 12,
      length, instrument>>

\* Sequence t is sequence s with element e added at 1-based position p
AddedAt(s, t, p, e) ==
    /\ Len(t) = Len(s) + 1
    /\ p \in 1 .. Len(t)
    /\ t[p] = e
    /\ \A q \in 1 .. (p - 1) : t[q] = s[q]
    /\ \A q \in p .. Len(s) : t[q + 1] = s[q]

OtherVoice(v) == 3 - v

NoZeroDuration(vs) ==
    \A j \in 1 .. 2 : \A i \in 1 .. Len(vs[j]) : vs[j][i][2] # 0

\* C1: for a song built by push/insert calls with no zero duration, a Song
\* constructed from the hex text of hex_dump()'s output exists and has the
\* same bpm and the same elements in both voices.
C1_DumpThenBuild ==
    (last.op = "rebuild" /\ bpm \in 0 .. 255 /\ NoZeroDuration(voices))
        => /\ last.err = "none"
           /\ last.out = <<[bpm |-> bpm, voices |-> voices]>>

\* A stream of the instrument revision: the bpm byte, then six-byte records
RecordWidth == NUM_VOICES * NUM_ELEMENTS
DurationOffsets == {2, 5}

WellFormed(st) ==
    /\ Len(st) >= 1
    /\ (Len(st) - 1) % RecordWidth = 0
    /\ \A r \in 0 .. ((Len(st) - 1) \div RecordWidth) - 1 :
          \A d \in DurationOffsets : st[1 + RecordWidth * r + d] # 0

\* C2: a well-formed stream whose duration bytes are all nonzero decodes to
\* a Song, and hex_dump() of that Song is the stream itself.
C2_BuildThenDump ==
    WellFormed(stream)
        => /\ last.op = "__init__" => (last.err = "none" /\ alive)
           /\ last.op = "hex_dump"
                 => (last.err = "none" /\ last.out = stream)

\* The byte the layout puts at 1-based position n >= 2 of the dump
LayoutByte(vs, n) ==
    LET i == (n - 2) \div 6
        j == ((n - 2) % 6) \div 3
        k == (n - 2) % 3
    IN  IF i < Len(vs[j + 1]) THEN vs[j + 1][i + 1][k + 1] ELSE 0

StoredNotesWithin(top) ==
    /\ \A j \in 1 .. 2 : \A i \in 1 .. Len(voices[j]) :
          voices[j][i][1] \in (0 .. top) \cup {REST}
    /\ (IsEdit /\ last.err = "none" /\ A.note # REST)
          => /\ A.note + (Val(A.octave) - 2) * 12 \in 0 .. top
             /\ \E p \in 1 .. Len(voices[A.voice_num]) :
                   AddedAt(Pre.voices[A.voice_num], voices[A.voice_num], p,
                           <<A.note + (Val(A.octave) - 2) * 12, A.length,
                             A.instrument>>)

\* C4 as stated: with notes from TONAL_VAL and octaves in 2..7 every stored
\* non-rest note is pitch class + (octave-2)*12 and lies in 0..59.
C4_Upto59 == StoredNotesWithin(59)

\* C4 as amended: with notes from TONAL_VAL and octaves in 2..7 every stored
\* non-rest note is pitch class + (octave-2)*12 and lies in 0..71; a stored
\* note is in 0..71 or is the rest value 73, never 72.
C4_Upto71 == StoredNotesWithin(71)

C4_Witness ==
    /\ last.op = "push_segment" /\ last.err = "none"
    /\ A.note = B_NATURAL /\ A.octave = Some(UPPER_OCTAVE)
    /\ voices[A.voice_num][Len(voices[A.voice_num])][1] = 71
    /\ Len(Pre.voices[A.voice_num]) >= 1

RestPushHere ==
    /\ last.op = "push_segment"
    /\ A.note = REST
    /\ A.voice_num \in {1, 2}
    /\ A.length \in 0 .. 255

RestAppended ==
    /\ last.err = "none"
    /\ voices = [Pre.voices EXCEPT ![A.voice_num] =
                    Append(@, <<73, A.length, A.instrument>>)]

\* C5 as stated: push_segment of a rest with a valid voice and duration
\* succeeds for every octave argument and appends one element with note 73.
C5_AnyOctave == RestPushHere => RestAppended

\* C5 as amended: push_segment of a rest with a valid voice and duration
\* succeeds when the octave is omitted or in 2..7 and then appends one
\* element whose note is 73, not scaled by the octave; with an octave
\* outside 2..7 it raises and stores nothing.
C5_OctaveChecked ==
    RestPushHere
        => IF A.octave = None \/ Val(A.octave) \in 2 .. 7
           THEN RestAppended
           ELSE last.err # "none" /\ voices = Pre.voices

C5_Witness ==
    /\ RestPushHere
    /\ A.octave = Some(7)
    /\ last.err = "none"
    /\ Len(Pre.voices[A.voice_num]) = 1
    /\ voices[A.voice_num][2][1] = REST

\* C6: remove_segment(voice_num, seg_index) with voice_num in {1,2} and
\* seg_index in 1..len(voice) removes exactly that element; with any other
\* seg_index or voice_num it raises and leaves the Song unmodified.
C6_Remove ==
    last.op = "remove_segment"
        => IF /\ A.voice_num \in {1, 2}
              /\ A.seg_num >= 1
              /\ A.seg_num <= Len(Pre.voices[A.voice_num])
           THEN /\ last.err = "none"
                /\ AddedAt(voices[A.voice_num], Pre.voices[A.voice_num],
                           A.seg_num, Pre.voices[A.voice_num][A.seg_num])
                /\ voices[OtherVoice(A.voice_num)]
                      = Pre.voices[OtherVoice(A.voice_num)]
                /\ bpm = Pre.bpm
           ELSE /\ last.err # "none"
                /\ voices = Pre.voices
                /\ bpm = Pre.bpm

BadEditArgs ==
    \/ A.voice_num \notin {1, 2}
    \/ A.length < 0
    \/ A.length > 255
    \/ A.octave # None /\ (Val(A.octave) < 2 \/ Val(A.octave) > 7)
    \/ A.octave = None /\ A.note # REST

\* C7: push_segment and insert_segment accept every duration in 0..255 and,
\* for a non-rest note, every octave in 2..7; a call with a voice outside
\* {1,2}, a duration outside 0..255, an octave outside 2..7, or a non-rest
\* note without octave raises, and then bpm and both voices are unchanged.
C7_ValidateThenMutate ==
    IsEdit
        => /\ BadEditArgs
                => (last.err # "none" /\ voices = Pre.voices
                    /\ bpm = Pre.bpm)
           /\ (/\ A.voice_num \in {1, 2}
               /\ A.length \in 0 .. 255
               /\ A.note # REST
               /\ A.octave # None /\ Val(A.octave) \in 2 .. 7)
                => (last.err = "none"
                    /\ Len(voices[A.voice_num])
                          = Len(Pre.voices[A.voice_num]) + 1)
           /\ (/\ A.voice_num \in {1, 2}
               /\ A.length \in 0 .. 255
               /\ A.note = REST
               /\ A.octave = None)
                => last.err = "none"

C7_Witness ==
    /\ last.op = "insert_segment"
    /\ A.voice_num = 1 /\ A.length = 255 /\ A.octave = Some(8)
    /\ last.err = "ValueError"
    /\ Len(voices[1]) = 1

\* C8: push_segment and insert_segment raise, and store nothing, for a note
\* that is neither a pitch class 0..11 nor the rest value.
C8_NoteChecked ==
    (IsEdit /\ A.note \notin TONAL_VAL)
        => (last.err # "none" /\ voices = Pre.voices)

\* C9: constructing a Song from a stream fails, and no Song exists, whenever
\* the number of bytes after the bpm byte is not a multiple of 6.
C9_LengthChecked ==
    (last.op = "__init__" /\ (Len(stream) - 1) % RecordWidth # 0)
        => (last.err # "none" /\ ~alive)

\* C10: a successful insert_segment with seg_index >= 0 puts the element,
\* encoded as push_segment encodes it, at position min(seg_index, len):
\* earlier elements stay, later ones move up by one, the other voice and
\* bpm are unchanged; with seg_index >= len the result is push_segment's.
C10_InsertPosition ==
    (last.op = "insert_segment" /\ last.err = "none" /\ A.seg_num >= 0)
        => LET old == Pre.voices[A.voice_num]
               pushed == push_segment(Pre.voices, A.voice_num, A.note,
                                      A.length, A.octave, A.instrument)
           IN  /\ AddedAt(old, voices[A.voice_num],
                          Min(A.seg_num, Len(old)) + 1,
                          Encoded(A.note, A.length, A.octave, A.instrument))
               /\ voices[OtherVoice(A.voice_num)]
                     = Pre.voices[OtherVoice(A.voice_num)]
               /\ bpm = Pre.bpm
               /\ A.seg_num >= Len(old)
                     => (pushed.err = "none" /\ voices = pushed.voices)

C10_Witness ==
    /\ last.op = "insert_segment" /\ last.err = "none"
    /\ A.seg_num = 1
    /\ Len(Pre.voices[A.voice_num]) = 2
    /\ voices[A.voice_num][2]
          = Encoded(A.note, A.length, A.octave, A.instrument)
    /\ voices[A.voice_num][2] # Pre.voices[A.voice_num][2]

====
